---------------------------- MODULE Spec2Model ----------------------------
(***************************************************************************)
(* Model of the response parser of src/app/page.tsx: tryParseJsonString,   *)
(* extractAgentData and parseAgentResponse, each called on an input drawn  *)
(* from a bounded set of JSON values.                                      *)
(*                                                                         *)
(* JSON values are tagged records:                                         *)
(*   [t |-> "undefined"]            a missing property                     *)
(*   [t |-> "null"]                                                        *)
(*   [t |-> "bool", b |-> BOOLEAN]                                         *)
(*   [t |-> "num", n |-> Int, d |-> Nat]   the number n/d in lowest terms  *)
(*   [t |-> "str", s |-> Seq(token)]                                       *)
(*   [t |-> "arr", a |-> Seq(value)]                                       *)
(*   [t |-> "obj", o |-> Seq([k : Seq(token), v : value])]                 *)
(* A string is the sequence of its lexical tokens: punctuation, blanks,    *)
(* quotes at each escape level, and words.  JSON.parse and JSON.stringify  *)
(* are a parser and a printer over such token sequences.                   *)
(***************************************************************************)
EXTENDS Integers, Sequences, FiniteSets, TLC

VARIABLES fn, arg, ret, again, pc, frame, iterations

(* The page: the React state of the Page component (lines 390-399), the
   calls of callAIAgent not yet settled, the number of submissions made, the
   clock read by Date.now(), and the last event, which the properties
   refer to. *)
VARIABLES query, loading, error, results, history, hasQueried, activeAgentId,
          requests, submitted, clock, last

parserVars == <<fn, arg, ret, again, pc, frame, iterations>>
pageVars == <<query, loading, error, results, history, hasQueried, activeAgentId,
              requests, submitted, clock, last>>
vars == <<parserVars, pageVars>>

---------------------------------------------------------------------------
(* JSON values *)

Undef == [t |-> "undefined"]
Null == [t |-> "null"]
Bool(b) == [t |-> "bool", b |-> b]
Num(n, d) == [t |-> "num", n |-> n, d |-> d]
Int_(n) == Num(n, 1)
Str(s) == [t |-> "str", s |-> s]
Arr(a) == [t |-> "arr", a |-> a]
Obj(o) == [t |-> "obj", o |-> o]
W(w) == Str(<<w>>)
KV(k, v) == [k |-> <<k>>, v |-> v]

(* obj[key]; undefined when the key is missing or obj has no such property *)
RECURSIVE Lookup(_, _)
Lookup(o, key) ==
  IF o = <<>> THEN Undef
  ELSE IF Head(o).k = key THEN Head(o).v
  ELSE Lookup(Tail(o), key)

Get(v, w) == IF v.t = "obj" THEN Lookup(v.o, <<w>>) ELSE Undef

(* JavaScript truthiness *)
Truthy(v) ==
  CASE v.t = "undefined" -> FALSE
    [] v.t = "null" -> FALSE
    [] v.t = "bool" -> v.b
    [] v.t = "num" -> v.n # 0
    [] v.t = "str" -> v.s # <<>>
    [] OTHER -> TRUE

(* typeof v === 'object' *)
TypeofObject(v) == v.t \in {"obj", "arr", "null"}

IsString(v) == v.t = "str"
IsNumber(v) == v.t = "num"
IsArray(v) == v.t = "arr"

(* v ?? w *)
Nullish(v) == v.t \in {"undefined", "null"}
Coalesce(v, w) == IF Nullish(v) THEN w ELSE v

---------------------------------------------------------------------------
(* Tokens *)

SP == " "
NBSP == "nbsp"
(* the quote character at escape levels 0, 1, 2, ...: ", \", \\\", ... *)
Quotes ==
  <<"\"",
    "\\\"",
    "\\\\\\\"",
    "\\\\\\\\\\\\\\\"",
    "\\\\\\\\\\\\\\\\\\\\\\\\\\\\\\\"",
    "\\\\\\\\\\\\\\\\\\\\\\\\\\\\\\\\\\\\\\\\\\\\\\\\\\\\\\\\\\\\\\\"">>
Q0 == Quotes[1]

QuoteLevel(tok) ==
  IF \E i \in 1..Len(Quotes) : Quotes[i] = tok
  THEN CHOOSE i \in 1..Len(Quotes) : Quotes[i] = tok
  ELSE 0

(* one level of string-literal escaping and its inverse *)
EscapeTok(tok) ==
  LET l == QuoteLevel(tok) IN
  IF l = 0 \/ l = Len(Quotes) THEN tok ELSE Quotes[l + 1]
UnescapeTok(tok) ==
  LET l == QuoteLevel(tok) IN
  IF l <= 1 THEN tok ELSE Quotes[l - 1]

(* number literals and the numbers they denote *)
NumTable ==
  << <<"0", 0, 1>>, <<"1", 1, 1>>, <<"2", 2, 1>>, <<"3", 3, 1>>, <<"4", 4, 1>>,
     <<"7", 7, 1>>, <<"42", 42, 1>>, <<"-1", -1, 1>>, <<"1.5", 3, 2>>,
     <<"-0.5", -1, 2>> >>
NumWords == {NumTable[i][1] : i \in 1..Len(NumTable)}
WordNum(w) ==
  LET i == CHOOSE j \in 1..Len(NumTable) : NumTable[j][1] = w
  IN Num(NumTable[i][2], NumTable[i][3])
NumWord(v) ==
  IF \E j \in 1..Len(NumTable) : NumTable[j][2] = v.n /\ NumTable[j][3] = v.d
  THEN NumTable[CHOOSE j \in 1..Len(NumTable) :
                  NumTable[j][2] = v.n /\ NumTable[j][3] = v.d][1]
  ELSE "NaN"

IsBlank(tok) == tok \in {SP, NBSP}

(* String.prototype.trim *)
TrimLeft(s) ==
  IF \A i \in 1..Len(s) : IsBlank(s[i]) THEN <<>>
  ELSE SubSeq(s, CHOOSE i \in 1..Len(s) :
                   ~IsBlank(s[i]) /\ \A j \in 1..(i - 1) : IsBlank(s[j]), Len(s))
TrimRight(s) ==
  IF \A i \in 1..Len(s) : IsBlank(s[i]) THEN <<>>
  ELSE SubSeq(s, 1, CHOOSE i \in 1..Len(s) :
                      ~IsBlank(s[i]) /\ \A j \in (i + 1)..Len(s) : IsBlank(s[j]))
Trim(s) == TrimRight(TrimLeft(s))

StartsWith(s, tok) == s # <<>> /\ Head(s) = tok
EndsWith(s, tok) == s # <<>> /\ s[Len(s)] = tok

---------------------------------------------------------------------------
(* JSON.parse *)

POk(v, rest) == [ok |-> TRUE, v |-> v, rest |-> rest]
PFail == [ok |-> FALSE, v |-> Null, rest |-> <<>>]
SOk(s, rest) == [ok |-> TRUE, s |-> s, rest |-> rest]
SFail == [ok |-> FALSE, s |-> <<>>, rest |-> <<>>]

(* JSON white space: the blank, but not the no-break space *)
SkipWs(s) ==
  IF \A i \in 1..Len(s) : s[i] = SP THEN <<>>
  ELSE SubSeq(s, CHOOSE i \in 1..Len(s) :
                   s[i] # SP /\ \A j \in 1..(i - 1) : s[j] = SP, Len(s))

(* the body of a string literal up to its closing quote, unescaped; s starts
   after the opening quote *)
ScanStr(s) ==
  IF \A i \in 1..Len(s) : s[i] # Q0 THEN SFail
  ELSE
    LET close == CHOOSE i \in 1..Len(s) :
                   s[i] = Q0 /\ \A j \in 1..(i - 1) : s[j] # Q0
    IN SOk([j \in 1..(close - 1) |-> UnescapeTok(s[j])], SubSeq(s, close + 1, Len(s)))

(* own-property order of a JavaScript object: array-index keys first, in
   ascending numeric order, then the other keys in insertion order *)
IsIndexKey(k) ==
  /\ Len(k) = 1
  /\ k[1] \in NumWords
  /\ WordNum(k[1]).d = 1
  /\ WordNum(k[1]).n >= 0

RECURSIVE SortIndexEntries(_, _)
SortIndexEntries(o, S) ==
  IF S = {} THEN <<>>
  ELSE
    LET m == CHOOSE i \in S :
               \A j \in S : WordNum(o[i].k[1]).n <= WordNum(o[j].k[1]).n
    IN <<o[m]>> \o SortIndexEntries(o, S \ {m})

PropertyOrder(o) ==
  SortIndexEntries(o, {i \in 1..Len(o) : IsIndexKey(o[i].k)})
  \o SelectSeq(o, LAMBDA e : ~IsIndexKey(e.k))

(* a repeated key keeps its first position and takes the last value *)
PutKey(o, key, v) ==
  IF \E i \in 1..Len(o) : o[i].k = key
  THEN [i \in 1..Len(o) |-> IF o[i].k = key THEN [k |-> key, v |-> v] ELSE o[i]]
  ELSE Append(o, [k |-> key, v |-> v])

(* The recursive-descent parser.  Each operator takes the tokens still to
   be read and returns [ok, v, rest]. *)
RECURSIVE ParseValue(_), ParseElems(_, _), ParseMembers(_, _)

StringValue(p) == IF p.ok THEN POk(Str(p.s), p.rest) ELSE PFail

ParseObject(r) ==
  IF StartsWith(r, "}") THEN POk(Obj(<<>>), Tail(r)) ELSE ParseMembers(r, <<>>)

ParseArray(r) ==
  IF StartsWith(r, "]") THEN POk(Arr(<<>>), Tail(r)) ELSE ParseElems(r, <<>>)

ParseToken(s) ==
  IF s = <<>> THEN PFail
  ELSE CASE Head(s) = "{" -> ParseObject(SkipWs(Tail(s)))
         [] Head(s) = "[" -> ParseArray(SkipWs(Tail(s)))
         [] Head(s) = Q0 -> StringValue(ScanStr(Tail(s)))
         [] Head(s) = "true" -> POk(Bool(TRUE), Tail(s))
         [] Head(s) = "false" -> POk(Bool(FALSE), Tail(s))
         [] Head(s) = "null" -> POk(Null, Tail(s))
         [] Head(s) \in NumWords -> POk(WordNum(Head(s)), Tail(s))
         [] OTHER -> PFail

ParseValue(s) == ParseToken(SkipWs(s))

ElemsNext(r, acc) ==
  IF r = <<>> THEN PFail
  ELSE IF Head(r) = "," THEN ParseElems(Tail(r), acc)
  ELSE IF Head(r) = "]" THEN POk(Arr(acc), Tail(r))
  ELSE PFail

ElemsAfter(p, acc) ==
  IF ~p.ok THEN PFail ELSE ElemsNext(SkipWs(p.rest), Append(acc, p.v))

ParseElems(s, acc) == ElemsAfter(ParseValue(s), acc)

MembersNext(r, acc) ==
  IF r = <<>> THEN PFail
  ELSE IF Head(r) = "," THEN ParseMembers(Tail(r), acc)
  ELSE IF Head(r) = "}" THEN POk(Obj(PropertyOrder(acc)), Tail(r))
  ELSE PFail

MemberAfter(key, p, acc) ==
  IF ~p.ok THEN PFail ELSE MembersNext(SkipWs(p.rest), PutKey(acc, key, p.v))

MemberValue(key, r, acc) ==
  IF ~StartsWith(r, ":") THEN PFail ELSE MemberAfter(key, ParseValue(Tail(r)), acc)

MemberColon(key, acc) ==
  IF ~key.ok THEN PFail ELSE MemberValue(key.s, SkipWs(key.rest), acc)

MemberKey(s, acc) ==
  IF ~StartsWith(s, Q0) THEN PFail ELSE MemberColon(ScanStr(Tail(s)), acc)

ParseMembers(s, acc) == MemberKey(SkipWs(s), acc)

ParseEnd(p) ==
  IF p.ok /\ SkipWs(p.rest) = <<>> THEN [ok |-> TRUE, v |-> p.v]
  ELSE [ok |-> FALSE, v |-> Null]

(* JSON.parse(s): [ok, v]; ok = FALSE stands for the SyntaxError thrown *)
JSONParse(s) == ParseEnd(ParseValue(s))

---------------------------------------------------------------------------
(* JSON.stringify (compact form), used to build the stringified inputs *)

RECURSIVE Join(_, _)
Join(ss, sep) ==
  IF ss = <<>> THEN <<>>
  ELSE IF Len(ss) = 1 THEN Head(ss)
  ELSE Head(ss) \o sep \o Join(Tail(ss), sep)

Quoted(s) == <<Q0>> \o [i \in 1..Len(s) |-> EscapeTok(s[i])] \o <<Q0>>

RECURSIVE Stringify(_)
Stringify(v) ==
  CASE v.t = "null" -> <<"null">>
    [] v.t = "undefined" -> <<"null">>
    [] v.t = "bool" -> IF v.b THEN <<"true">> ELSE <<"false">>
    [] v.t = "num" -> <<NumWord(v)>>
    [] v.t = "str" -> Quoted(v.s)
    [] v.t = "arr" ->
         <<"[">> \o Join([i \in 1..Len(v.a) |-> Stringify(v.a[i])], <<",">>) \o <<"]">>
    [] v.t = "obj" ->
         <<"{">> \o
         Join([i \in 1..Len(v.o) |->
                 Quoted(v.o[i].k) \o <<":">> \o Stringify(v.o[i].v)], <<",">>)
         \o <<"}">>

---------------------------------------------------------------------------
(* tryParseJsonString, page.tsx 69-80 *)

ParsedOr(p, val) == IF p.ok THEN p.v ELSE val

ParseTrimmed(trimmed, val) ==
  IF (StartsWith(trimmed, "{") /\ EndsWith(trimmed, "}"))
     \/ (StartsWith(trimmed, "[") /\ EndsWith(trimmed, "]"))
  THEN ParsedOr(JSONParse(trimmed), val)
  ELSE val

(* tryParseJsonString without the bracket test of line 72 *)
tryParseJsonString_NoShapeCheck(val) ==
  IF ~IsString(val) THEN val ELSE ParsedOr(JSONParse(Trim(val.s)), val)

(* lines 69-80 *)
tryParseJsonString(val) ==
  IF ~IsString(val) THEN val ELSE ParseTrimmed(Trim(val.s), val)

(* the target shape: an object with a list-valued `variables` field *)
HasVariables(v) == IsArray(Get(v, "variables"))

(* v && typeof v === 'object' *)
IsObjectLike(v) == Truthy(v) /\ TypeofObject(v)

---------------------------------------------------------------------------
(* extractAgentData, page.tsx 82-99 *)

(* the candidate keys with `text` tried last *)
CandidateKeys_TextLast == <<"response", "result", "data", "content", "output", "text">>

(* the candidate keys tried in the reverse order *)
CandidateKeys_Reversed == <<"output", "content", "data", "result", "response", "text">>

(* line 89 *)
CandidateKeys == <<"text", "response", "result", "data", "content", "output">>

RECURSIVE ExtractFromKeys(_, _)

(* lines 90-94: parsed is tryParseJsonString(obj[key]) for the first of keys *)
ExtractKey(obj, keys, parsed) ==
  IF Get(obj, Head(keys)) # Undef /\ IsObjectLike(parsed) /\ HasVariables(parsed)
  THEN parsed
  ELSE ExtractFromKeys(obj, Tail(keys))

ExtractFromKeys(obj, keys) ==
  IF keys = <<>> THEN obj
  ELSE ExtractKey(obj, keys, tryParseJsonString(Get(obj, Head(keys))))

extractAgentData(obj) ==
  IF ~IsObjectLike(obj) THEN obj
  ELSE IF HasVariables(obj) THEN obj
  ELSE ExtractFromKeys(obj, CandidateKeys)

---------------------------------------------------------------------------
(* parseAgentResponse, page.tsx 101-199 *)

(* !data || typeof data !== 'object' || !Array.isArray(data.variables) *)
NotTarget(data) == ~IsObjectLike(data) \/ ~HasVariables(data)

(* lines 110-113 *)
PrimaryExtract(data) ==
  IF IsObjectLike(data) /\ ~HasVariables(data) THEN extractAgentData(data) ELSE data

(* lines 105-113: the primary result field *)
PrimaryResult(result) ==
  PrimaryExtract(tryParseJsonString(Get(Get(result, "response"), "result")))

(* lines 126-129 *)
ResponseExtract(extracted, data) ==
  IF Truthy(extracted) /\ HasVariables(extracted) THEN extracted ELSE data

(* lines 118-131 *)
ResponseCheck(responseLevel, data) ==
  IF ~IsObjectLike(responseLevel) THEN data
  ELSE IF HasVariables(responseLevel) THEN responseLevel
  ELSE IF IsObjectLike(Get(responseLevel, "result"))
       THEN ResponseExtract(extractAgentData(Get(responseLevel, "result")), data)
  ELSE data

(* the response-level check taking precedence over the primary result *)
ResponseLevel_First(result, data) ==
  IF HasVariables(Get(result, "response")) THEN Get(result, "response")
  ELSE IF NotTarget(data) THEN ResponseCheck(Get(result, "response"), data)
  ELSE data

(* lines 115-133: the response object itself *)
ResponseLevel(result, data) ==
  IF NotTarget(data) THEN ResponseCheck(Get(result, "response"), data) ELSE data

(* lines 139-167: the loop over raw_response; depth counts the iterations *)
MaxRawDepth == 3

(* the loop running until a break, whatever depth is *)
LoopContinues_Unbounded(depth) == TRUE

(* line 139: depth < 3 *)
LoopContinues(depth) == depth < MaxRawDepth

RECURSIVE RawLoop(_, _, _)

(* lines 158-163 *)
RawExtract(extracted, data) ==
  IF Truthy(extracted) /\ HasVariables(extracted) THEN extracted ELSE data

(* lines 149-155 *)
RawInner(rawVal, inner, depth, data) ==
  IF IsObjectLike(inner) /\ HasVariables(inner) THEN inner
  ELSE RawLoop(Get(rawVal, "response"), depth + 1, data)

(* lines 141-166 *)
RawStep(rawVal, depth, data) ==
  IF ~IsObjectLike(rawVal) THEN data
  ELSE IF HasVariables(rawVal) THEN rawVal
  ELSE IF Truthy(Get(rawVal, "response"))
       THEN RawInner(rawVal, tryParseJsonString(Get(rawVal, "response")), depth, data)
  ELSE RawExtract(extractAgentData(rawVal), data)

RawLoop(rawVal, depth, data) ==
  IF ~LoopContinues(depth) THEN data
  ELSE RawStep(tryParseJsonString(rawVal), depth, data)

(* lines 135-168 *)
RawResponse(result, data) ==
  IF NotTarget(data) /\ Truthy(Get(result, "raw_response"))
  THEN RawLoop(Get(result, "raw_response"), 0, data)
  ELSE data

(* lines 149-155, one iteration: break with inner, or descend and continue *)
RawBodyInner(rawVal, inner, data) ==
  IF IsObjectLike(inner) /\ HasVariables(inner)
  THEN [break |-> TRUE, rawVal |-> rawVal, data |-> inner]
  ELSE [break |-> FALSE, rawVal |-> Get(rawVal, "response"), data |-> data]

(* lines 141-166, one iteration on the coerced rawVal: whether it ends in a
   break, and rawVal and data after it *)
RawBody(rawVal, data) ==
  IF ~IsObjectLike(rawVal) THEN [break |-> TRUE, rawVal |-> rawVal, data |-> data]
  ELSE IF HasVariables(rawVal) THEN [break |-> TRUE, rawVal |-> rawVal, data |-> rawVal]
  ELSE IF Truthy(Get(rawVal, "response"))
       THEN RawBodyInner(rawVal, tryParseJsonString(Get(rawVal, "response")), data)
  ELSE [break |-> TRUE, rawVal |-> rawVal,
        data |-> RawExtract(extractAgentData(rawVal), data)]

(* Object.values *)
ObjectValues(v) ==
  CASE v.t = "obj" -> [i \in 1..Len(v.o) |-> v.o[i].v]
    [] v.t = "arr" -> v.a
    [] OTHER -> <<>>

(* val.includes('variables'): a word holding the substring *)
MarkerWords == {"variables", "no_variables_here"}
IncludesVariables(s) == \E i \in 1..Len(s) : s[i] \in MarkerWords

RECURSIVE ScanValues(_, _)

(* the scan ended by the first string that mentions `variables` *)
ScanValue_StopAtMention(val, parsed, rest, data) ==
  IF IsString(val) /\ IncludesVariables(val.s)
  THEN (IF IsObjectLike(parsed) /\ HasVariables(parsed) THEN parsed ELSE data)
  ELSE ScanValues(rest, data)

(* lines 175-181 *)
ScanValue(val, parsed, rest, data) ==
  IF IsString(val) /\ IncludesVariables(val.s)
     /\ IsObjectLike(parsed) /\ HasVariables(parsed)
  THEN parsed
  ELSE ScanValues(rest, data)

ScanValues(vals, data) ==
  IF vals = <<>> THEN data
  ELSE ScanValue(Head(vals), tryParseJsonString(Head(vals)), Tail(vals), data)

(* lines 170-184: the scan of the string values of response.result *)
DeepScan(result, data) ==
  IF NotTarget(data) /\ IsObjectLike(Get(Get(result, "response"), "result"))
  THEN ScanValues(ObjectValues(Get(Get(result, "response"), "result")), data)
  ELSE data

(* String(x) of a JSON value *)
RECURSIVE ToStringTokens(_)
ToStringTokens(v) ==
  CASE v.t = "str" -> v.s
    [] v.t = "num" -> <<NumWord(v)>>
    [] v.t = "bool" -> IF v.b THEN <<"true">> ELSE <<"false">>
    [] v.t = "null" -> <<"null">>
    [] v.t = "undefined" -> <<"undefined">>
    [] v.t = "arr" ->
         Join([i \in 1..Len(v.a) |->
                 IF Nullish(v.a[i]) THEN <<>> ELSE ToStringTokens(v.a[i])], <<",">>)
    [] v.t = "obj" -> <<"[", "object", " ", "Object", "]">>

(* lines 192-194: one record of the result *)
Confidences == {W("high"), W("medium"), W("low")}
NotSet == Str(<<"not", " ", "set">>)

(* an exception leaving the function: the TypeError of String(x) *)
Thrown == [t |-> "throw", message |-> W("Cannot convert object to primitive value")]

(* String(x) throws: x is an object with an own property `toString`, which
   no JSON value makes callable, while the inherited valueOf returns the
   object itself; or x is an array whose join reaches such an object *)
RECURSIVE StringThrows(_)
StringThrows(v) ==
  CASE v.t = "obj" -> Get(v, "toString") # Undef
    [] v.t = "arr" -> \E i \in 1..Len(v.a) : ~Nullish(v.a[i]) /\ StringThrows(v.a[i])
    [] OTHER -> FALSE

(* lines 192-193: String(v?.name ?? '') or String(v?.value ?? 'not set') throws *)
MapVariableThrows(v) ==
  \/ ~IsString(Get(v, "name")) /\ StringThrows(Coalesce(Get(v, "name"), Str(<<>>)))
  \/ ~IsString(Get(v, "value")) /\ StringThrows(Coalesce(Get(v, "value"), NotSet))

(* lines 191-195: the callback of map throws for some element *)
VariablesThrow(data) ==
  /\ IsArray(Get(data, "variables"))
  /\ \E i \in 1..Len(Get(data, "variables").a) :
       MapVariableThrows(Get(data, "variables").a[i])

(* the record without the String(...) conversion of name and value *)
MapVariable_NoString(v) ==
  [name |-> Coalesce(Get(v, "name"), Str(<<>>)),
   value |-> Coalesce(Get(v, "value"), NotSet),
   confidence |-> IF Get(v, "confidence") \in Confidences
                  THEN Get(v, "confidence") ELSE W("low")]

MapVariable(v) ==
  [name |-> IF IsString(Get(v, "name")) THEN Get(v, "name")
            ELSE Str(ToStringTokens(Coalesce(Get(v, "name"), Str(<<>>)))),
   value |-> IF IsString(Get(v, "value")) THEN Get(v, "value")
             ELSE Str(ToStringTokens(Coalesce(Get(v, "value"), NotSet))),
   confidence |-> IF Get(v, "confidence") \in Confidences
                  THEN Get(v, "confidence") ELSE W("low")]

(* line 190 *)
QueryInterpretation(data) ==
  Coalesce(Get(data, "query_interpretation"),
    Coalesce(Get(data, "queryInterpretation"),
      Coalesce(Get(data, "interpretation"), Str(<<>>))))

(* the mapped list with null and undefined elements left out *)
Variables_SkipNullish(data) ==
  IF IsArray(Get(data, "variables"))
  THEN LET kept == SelectSeq(Get(data, "variables").a, LAMBDA e : ~Nullish(e))
       IN [i \in 1..Len(kept) |-> MapVariable(kept[i])]
  ELSE <<>>

(* lines 191-195 *)
Variables(data) ==
  IF IsArray(Get(data, "variables"))
  THEN [i \in 1..Len(Get(data, "variables").a) |->
          MapVariable(Get(data, "variables").a[i])]
  ELSE <<>>

(* total_found taken from the source whenever it is present, of any type *)
TotalFound_AnyPresent(data) ==
  Coalesce(Get(data, "total_found"),
    IF IsArray(Get(data, "variables")) THEN Int_(Len(Get(data, "variables").a))
    ELSE Int_(0))

(* total_found falling back to 0 instead of the list length *)
TotalFound_ZeroDefault(data) ==
  IF IsNumber(Get(data, "total_found")) THEN Get(data, "total_found") ELSE Int_(0)

(* line 196 *)
TotalFound(data) ==
  IF IsNumber(Get(data, "total_found")) THEN Get(data, "total_found")
  ELSE IF IsArray(Get(data, "variables")) THEN Int_(Len(Get(data, "variables").a))
  ELSE Int_(0)

(* line 197 *)
Message(data) == Coalesce(Get(data, "message"), Str(<<>>))

(* lines 189-198 *)
ResultOf(data) ==
  IF VariablesThrow(data) THEN Thrown
  ELSE [t |-> "res",
        query_interpretation |-> QueryInterpretation(data),
        variables |-> Variables(data),
        total_found |-> TotalFound(data),
        message |-> Message(data)]

(* a result only for an object with a list-valued `variables` field *)
BuildResult_TargetOnly(data) == IF NotTarget(data) THEN Null ELSE ResultOf(data)

(* lines 186-198: the result built from the object found *)
BuildResult(data) == IF ~IsObjectLike(data) THEN Null ELSE ResultOf(data)

(* the deep scan run before the loop over raw_response *)
LocateData_ScanBeforeRaw(result) ==
  RawResponse(result,
    DeepScan(result,
      ResponseLevel(result,
        PrimaryResult(result))))

(* the object the strategies settle on *)
LocateData(result) ==
  DeepScan(result,
    RawResponse(result,
      ResponseLevel(result,
        PrimaryResult(result))))

(* parseAgentResponse without the success test of line 102 *)
parseAgentResponse_IgnoreSuccess(result) ==
  IF ~Truthy(Get(result, "response")) THEN Null
  ELSE BuildResult(LocateData(result))

parseAgentResponse(result) ==
  IF ~Truthy(Get(result, "success")) \/ ~Truthy(Get(result, "response")) THEN Null
  ELSE BuildResult(LocateData(result))

---------------------------------------------------------------------------
(* The inputs: envelopes as callAIAgent can return them *)

(* longest `variables` list, and longest token string, that is enumerated *)
MaxVars == 2
MaxTokens == 3

Opt(k, v) == IF v = Undef THEN <<>> ELSE <<KV(k, v)>>

WellFormedElem ==
  Obj(<<KV("name", W("PORT")), KV("value", W("8080")), KV("confidence", W("high"))>>)
Elems ==
  { WellFormedElem,
    Obj(<<KV("name", W("DB_URL"))>>),
    Null,
    Int_(7),
    Obj(<<KV("name", Int_(42)), KV("value", Null), KV("confidence", W("HIGH"))>>),
    Obj(<<KV("name", W("API_KEY")), KV("value", Arr(<<Int_(1), Null, Bool(FALSE)>>)),
          KV("confidence", W("medium")), KV("source", W("vault"))>>),
    Obj(<<KV("value", Obj(<<>>)), KV("confidence", Int_(1))>>),
    Obj(<<KV("name", Obj(<<KV("toString", Int_(1))>>)), KV("value", W("x"))>>),
    Obj(<<KV("name", W("TAGS")),
          KV("value", Arr(<<W("a"), Obj(<<KV("toString", Null)>>)>>))>>) }

SeqsUpTo(S, n) == UNION {[1..k -> S] : k \in 0..n}

VarLists == SeqsUpTo(Elems, MaxVars)

TotalFounds == {Undef, Null, Int_(1), Int_(-1), Num(3, 2), W("2")}
Interpretations ==
  { <<>>,
    <<KV("query_interpretation", Str(<<"all", " ", "ports">>))>>,
    <<KV("queryInterpretation", W("camel"))>>,
    <<KV("interpretation", W("short"))>>,
    <<KV("query_interpretation", Int_(42))>>,
    <<KV("query_interpretation", Null), KV("interpretation", W("fallback"))>>,
    <<KV("query_interpretation", Str(<<>>)), KV("queryInterpretation", W("camel"))>> }
Messages == {Undef, W("done"), Str(<<>>), Int_(0)}

Target(vs, tf, qi, msg) ==
  Obj(<<KV("variables", Arr(vs))>> \o Opt("total_found", tf) \o qi \o Opt("message", msg))

PlainTarget(vs) == Target(vs, Undef, <<>>, Undef)

Targets ==
  {PlainTarget(vs) : vs \in VarLists}
  \cup {Target(vs, tf, qi, msg) :
          vs \in {<<>>, <<WellFormedElem>>}, tf \in TotalFounds,
          qi \in Interpretations, msg \in Messages}

T1 == Target(<<WellFormedElem>>, Int_(1), <<>>, Undef)
T2 == PlainTarget(<<Obj(<<KV("name", W("DB_URL"))>>), Null>>)
SmallTargets == {T1, T2}

JsonText(v) == Str(Stringify(v))
Padded(v) == Str(<<SP, NBSP>> \o Stringify(v) \o <<SP>>)

(* results that hold no target shape anywhere *)
NonTargets ==
  { Undef, Null, Bool(TRUE), Int_(5), Str(<<>>), W("plain"),
    Obj(<<>>), Arr(<<>>), JsonText(Obj(<<>>)),
    Str(<<"{", Q0, "variables", Q0, ":", "[">>),
    Obj(<<KV("message", W("hello")), KV("total_found", Int_(3))>>),
    Obj(<<KV("variables", W("none"))>>),
    Obj(<<KV("variables", Obj(<<>>)), KV("total_found", W("2"))>>),
    Obj(<<KV("text", Str(<<"no_variables_here">>))>>),
    Arr(<<T1>>) }

(* a target under one key of response.result, as an object or as JSON text *)
ResultKeys == {"text", "response", "result", "data", "content", "output", "other", "0"}
Keyed ==
  {Obj(<<KV(k, v)>>) : k \in ResultKeys,
                       v \in {T1, JsonText(T1), Padded(T2)}}
  \cup {Obj(<<KV(k[1], JsonText(T1)), KV(k[2], JsonText(T2))>>) :
          k \in {kk \in {"text", "output", "other"} \X {"text", "data", "other", "zz"} :
                   kk[1] # kk[2]}}
  \cup {Obj(<<KV("other", Str(<<"{", "variables">>)), KV("zz", JsonText(T2))>>),
        Obj(<<KV("other", JsonText(Obj(<<KV("variables", W("none"))>>))),
              KV("zz", JsonText(T2))>>),
        Obj(<<KV("text", W("plain")), KV("data", JsonText(T1)), KV("output", T2)>>),
        Obj(<<KV("text", Null), KV("content", JsonText(Arr(<<T1>>))), KV("output", T2)>>),
        Obj(PropertyOrder(<<KV("zz", JsonText(T2)), KV("0", JsonText(T1))>>)),
        Arr(<<W("variables"), JsonText(T2)>>),
        JsonText(Obj(<<KV("other", JsonText(T1))>>)),
        JsonText(Obj(<<KV("text", JsonText(T1))>>))}

Results ==
  Targets
  \cup {JsonText(t) : t \in Targets}
  \cup {Obj(<<KV("text", JsonText(t))>>) : t \in Targets}
  \cup {Padded(t) : t \in SmallTargets}
  \cup NonTargets
  \cup Keyed

SmallResults == NonTargets \cup {T2, JsonText(T2), Obj(<<KV("text", JsonText(T2))>>)}

(* t wrapped n times under a `response` key, each level as JSON text or not *)
RECURSIVE Wrapped(_, _, _)
Wrapped(t, n, text) ==
  IF n = 0 THEN (IF text THEN JsonText(t) ELSE t)
  ELSE
    LET w == Obj(<<KV("response", Wrapped(t, n - 1, text))>>)
    IN IF text THEN JsonText(w) ELSE w

RawResponses ==
  {Wrapped(T1, n, text) : n \in 0..4, text \in BOOLEAN}
  \cup { Null, Int_(5), W("plain"), Obj(<<>>),
         Obj(<<KV("data", JsonText(T1))>>),
         Obj(<<KV("response", W("plain")), KV("data", T1)>>),
         JsonText(Obj(<<KV("output", T1)>>)) }

Response(r, extra) == Obj(Opt("result", r) \o extra)

Envelope(success, response, raw) ==
  Obj(Opt("success", success) \o Opt("response", response) \o Opt("raw_response", raw))

ResponseExtras ==
  { <<KV("variables", Arr(<<WellFormedElem, Null>>)), KV("message", W("top"))>>,
    <<KV("variables", W("none")), KV("status", W("success"))>>,
    <<KV("message", W("Agent")), KV("status", W("success"))>> }

Envelopes ==
  {Envelope(Bool(TRUE), Response(r, <<>>), Undef) : r \in Results}
  \cup {Envelope(Bool(TRUE), Response(r, <<>>), raw) :
          r \in SmallResults, raw \in RawResponses}
  \cup {Envelope(Bool(TRUE), Response(r, x), raw) :
          r \in SmallResults, x \in ResponseExtras, raw \in {Undef, JsonText(T1)}}
  \cup {Envelope(s, Response(r, x), raw) :
          s \in {Bool(FALSE), Undef, Null, Int_(0)},
          r \in {T2, Obj(<<>>), Undef},
          x \in ResponseExtras \cup {<<>>},
          raw \in {Undef, JsonText(T1)}}
  \cup {Envelope(Bool(TRUE), resp, raw) :
          resp \in {Undef, Null, Str(<<>>), Int_(0), Bool(FALSE), W("ok"), Arr(<<T1>>)},
          raw \in {Undef, T1, JsonText(T1)}}

(* envelopes in which several strategies have a target to find *)
ScanResults ==
  { Obj(<<KV("other", JsonText(T2))>>),
    Obj(<<KV("other", Str(<<"{", "variables">>)), KV("zz", JsonText(T2))>>),
    Obj(<<KV("text", JsonText(T2))>>),
    Obj(<<>>) }
Contested ==
  {Envelope(Bool(TRUE), Response(r, x), raw) :
     r \in ScanResults,
     x \in {<<>>, <<KV("variables", Arr(<<WellFormedElem, Null>>))>>},
     raw \in {JsonText(T1), Obj(<<KV("data", T1)>>), Wrapped(T1, 4, FALSE)}}

(* envelopes whose response.result is the JSON text of one of these objects *)
Stringified ==
  {Envelope(Bool(TRUE), Response(JsonText(r), <<>>), raw) :
     r \in ScanResults, raw \in {Undef, JsonText(T1)}}

(* the values extractAgentData is applied to *)
ExtractInputs == Keyed \cup NonTargets \cup SmallTargets

(* the values tryParseJsonString is applied to *)
Alphabet == {"{", "}", "[", "]", Q0, ":", ",", "1", SP}
CoerceInputs ==
  {Str(s) : s \in SeqsUpTo(Alphabet, MaxTokens)}
  \cup {Undef, Null, Bool(TRUE), Int_(0), Num(3, 2), Obj(<<>>), Arr(<<W("[]")>>), T1, T2}
  \cup {JsonText(t) : t \in SmallTargets} \cup {Padded(t) : t \in SmallTargets}
  \cup {JsonText(JsonText(T1)), JsonText(Str(<<"[", "]">>)), JsonText(Str(<<"{", "}">>)),
        JsonText(Arr(<<Str(<<"{", "}">>)>>)), Padded(Arr(<<Str(<<"{", "}">>)>>)),
        JsonText(Obj(<<KV("text", JsonText(T2))>>)),
        Str(<<NBSP, "[", NBSP, "]">>), Str(<<"{", Q0, "a", Q0, ":", "1", ",", "}">>),
        W("plain"), Str(<<"[", "object", SP, "Object", "]">>)}

---------------------------------------------------------------------------
(* The state machine: a call of one of the functions on a drawn input.
   fn is the function called, arg its argument, ret its return value once
   pc has left "call"; again is the value of a second application.
   A call of parseAgentResponse is also run statement by statement
   (fn = "parseAgentResponse/steps"): frame holds its locals data, rawVal
   and depth, and iterations counts the executions of the loop body.      *)

Pending == [t |-> "pending"]

NoFrame == [data |-> Undef, rawVal |-> Undef, depth |-> 0]

(* the envelopes a stepwise call is run on *)
StepEnvelopes ==
  {Envelope(Bool(TRUE), Response(r, <<>>), raw) :
     r \in SmallResults, raw \in RawResponses \cup {Undef}}
  \cup {Envelope(s, Response(T2, <<>>), JsonText(T1)) : s \in {Bool(FALSE), Undef}}

(* lines 390-399: the state of the page before any event *)
PageStart ==
  /\ query = Str(<<>>)
  /\ loading = FALSE
  /\ error = Null
  /\ results = Null
  /\ hasQueried = FALSE
  /\ activeAgentId = Null
  /\ requests = {}
  /\ submitted = 0
  /\ clock = 0
  /\ last = [op |-> "other"]

Init ==
  /\ pc = "call"
  /\ ret = Pending
  /\ again = Pending
  /\ frame = NoFrame
  /\ iterations = 0
  /\ PageStart
  /\ history = <<>>
  /\ \/ fn = "parseAgentResponse" /\ arg \in Envelopes \cup Contested \cup Stringified
     \/ fn = "extractAgentData" /\ arg \in ExtractInputs
     \/ fn = "tryParseJsonString" /\ arg \in CoerceInputs
     \/ fn = "parseAgentResponse/steps" /\ arg \in StepEnvelopes

ParseAgentResponse ==
  /\ pc = "call"
  /\ fn = "parseAgentResponse"
  /\ ret' = parseAgentResponse(arg)
  /\ pc' = "returned"
  /\ UNCHANGED <<fn, arg, again, frame, iterations>>
  /\ UNCHANGED pageVars

TryParseJsonString ==
  /\ pc = "call"
  /\ fn = "tryParseJsonString"
  /\ ret' = tryParseJsonString(arg)
  /\ pc' = "returned"
  /\ UNCHANGED <<fn, arg, again, frame, iterations>>
  /\ UNCHANGED pageVars

ExtractAgentData ==
  /\ pc = "call"
  /\ fn = "extractAgentData"
  /\ ret' = extractAgentData(arg)
  /\ pc' = "returned"
  /\ UNCHANGED <<fn, arg, again, frame, iterations>>
  /\ UNCHANGED pageVars

TryParseJsonStringAgain ==
  /\ pc = "returned"
  /\ fn = "tryParseJsonString"
  /\ again' = tryParseJsonString(ret)
  /\ pc' = "twice"
  /\ UNCHANGED <<fn, arg, ret, frame, iterations>>
  /\ UNCHANGED pageVars

(* lines 105-136: strategies 1 and 2, and the test that guards the loop *)
EnterFrame(data) ==
  /\ frame' = [data |-> data,
               rawVal |-> IF NotTarget(data) /\ Truthy(Get(arg, "raw_response"))
                          THEN Get(arg, "raw_response") ELSE Undef,
               depth |-> 0]
  /\ pc' = IF NotTarget(data) /\ Truthy(Get(arg, "raw_response"))
           THEN "loop" ELSE "scan"

(* lines 102-138 *)
BeginParse ==
  /\ pc = "call"
  /\ fn = "parseAgentResponse/steps"
  /\ IF ~Truthy(Get(arg, "success")) \/ ~Truthy(Get(arg, "response"))
     THEN ret' = Null /\ pc' = "returned" /\ UNCHANGED frame
     ELSE EnterFrame(ResponseLevel(arg, PrimaryResult(arg))) /\ UNCHANGED ret
  /\ UNCHANGED <<fn, arg, again, iterations>>
  /\ UNCHANGED pageVars

(* the end of one iteration: break, or depth++ and back to line 139 *)
EndIteration(body) ==
  /\ frame' = [data |-> body.data, rawVal |-> body.rawVal,
               depth |-> IF body.break THEN frame.depth ELSE frame.depth + 1]
  /\ pc' = IF body.break THEN "scan" ELSE "loop"

(* lines 139-166: one iteration of the loop over raw_response *)
RawIterate ==
  /\ pc = "loop"
  /\ LoopContinues(frame.depth)
  /\ EndIteration(RawBody(tryParseJsonString(frame.rawVal), frame.data))
  /\ iterations' = iterations + 1
  /\ UNCHANGED <<fn, arg, ret, again>>
  /\ UNCHANGED pageVars

(* line 139: the loop left because depth < 3 is false *)
RawExit ==
  /\ pc = "loop"
  /\ ~LoopContinues(frame.depth)
  /\ pc' = "scan"
  /\ UNCHANGED <<fn, arg, ret, again, frame, iterations>>
  /\ UNCHANGED pageVars

(* lines 170-198: the deep scan and the result *)
FinishParse ==
  /\ pc = "scan"
  /\ ret' = BuildResult(DeepScan(arg, frame.data))
  /\ pc' = "returned"
  /\ UNCHANGED <<fn, arg, again, frame, iterations>>
  /\ UNCHANGED pageVars

Next ==
  \/ ParseAgentResponse
  \/ TryParseJsonString
  \/ TryParseJsonStringAgain
  \/ ExtractAgentData
  \/ BeginParse
  \/ RawIterate
  \/ RawExit
  \/ FinishParse

Spec == Init /\ [][Next]_vars

---------------------------------------------------------------------------
(* The page: handleSubmit, clearHistory, rerunQuery (page.tsx 456-577) and
   the controls of the JSX that call them.  handleSubmit runs in two steps:
   up to the await of callAIAgent, and, once the call has settled, from
   line 468 to the end; the state updates of one step are applied together.
   callAIAgent is outside the repository's source: it returns any JSON
   envelope or rejects. *)

(* most submissions made in one run *)
MaxRequests == 2

(* lines 10, 269, 271 (the first of the five suggestions), and the text of
   lines 499 and 739 *)
AGENT_ID == W("69a0810b6e827eaf7ecbd044")
FETCH_ALL_QUERY == W("List every single environment variable available on the system.")
SUGGESTIONS == {W("Database vars")}
ShowAll == W("Show all environment variables")

(* line 487 *)
FailureMessage(result) ==
  Coalesce(Get(result, "error"),
    Coalesce(Get(Get(result, "response"), "message"),
      W("Agent request failed. Please try again.")))

(* line 493: parsed.query_interpretation?.slice(0, 50) is a TypeError when
   the value is not null or undefined and has no slice method *)
LogThrows(parsed) ==
  /\ parsed # Null
  /\ ~Nullish(parsed.query_interpretation)
  /\ parsed.query_interpretation.t \notin {"str", "arr"}

(* variables alone decide *)
HasData_VariablesOnly(parsed) == parsed # Null /\ Len(parsed.variables) > 0

(* line 495 *)
HasData(parsed) ==
  /\ parsed # Null
  /\ Len(parsed.variables) > 0 \/ Truthy(parsed.query_interpretation)

(* line 512 *)
HasMessage(parsed) == parsed # Null /\ Truthy(parsed.message)

(* the order of line 487 taken for line 506 too *)
ResponseMsg_ErrorFirst(result) ==
  Coalesce(Get(result, "error"),
    Coalesce(Get(Get(result, "response"), "message"),
      W("No matching variables found. The agent returned an empty result. Try a more specific query.")))

(* lines 506-511 *)
ResponseMsg(result) ==
  Coalesce(Get(Get(result, "response"), "message"),
    Coalesce(IF IsObjectLike(Get(Get(result, "response"), "result"))
             THEN Coalesce(Get(Get(Get(result, "response"), "result"), "text"),
                           Get(Get(Get(result, "response"), "result"), "message"))
             ELSE Null,
      Coalesce(Get(result, "error"),
        W("No matching variables found. The agent returned an empty result. Try a more specific query."))))

(* line 522 *)
NoMatchError(result) ==
  IF IsString(ResponseMsg(result)) THEN ResponseMsg(result)
  ELSE W("No results returned. Try a different query.")

(* lines 486-527: what the continuation does with the envelope: the error
   it sets, or the result it displays and the resultCount it records.  An
   exception of line 492 or 493 is caught at line 525. *)
Outcome(result, parsed) ==
  IF ~Truthy(Get(result, "success"))
  THEN [set |-> "error", error |-> FailureMessage(result)]
  ELSE IF parsed = Thrown
  THEN [set |-> "error", error |-> Thrown.message]
  ELSE IF LogThrows(parsed)
  THEN [set |-> "error",
        error |-> W("parsed.query_interpretation?.slice is not a function")]
  ELSE IF HasData(parsed)
  THEN [set |-> "results", results |-> parsed, resultCount |-> parsed.total_found]
  ELSE IF HasMessage(parsed)
  THEN [set |-> "results", results |-> parsed, resultCount |-> Int_(0)]
  ELSE [set |-> "error", error |-> NoMatchError(result)]

(* lines 525-527: callAIAgent rejected with err *)
Caught(err) ==
  [set |-> "error",
   error |-> IF err.t = "Error" THEN err.message
             ELSE W("An unexpected error occurred")]

(* the whole list kept on an append *)
Kept_All(prev) == prev

(* lines 503, 520: prev.slice(0, 49) *)
Kept(prev) == SubSeq(prev, 1, IF Len(prev) < 49 THEN Len(prev) ELSE 49)

(* lines 497-502, 514-519 *)
HistoryItem(req, resultCount) ==
  [id |-> clock + 1,
   query |-> IF Truthy(req.queryText) THEN ShowAll ELSE req.q,
   timestamp |-> clock + 1,
   resultCount |-> resultCount]

(* lines 457-467: handleSubmit up to the await *)
handleSubmit(queryText) ==
  IF Trim(Coalesce(queryText, query).s) = <<>>
  THEN /\ UNCHANGED <<loading, error, results, hasQueried, activeAgentId,
                      requests, submitted>>
       /\ last' = [op |-> "blank"]
  ELSE /\ loading' = TRUE
       /\ error' = Null
       /\ results' = Null
       /\ hasQueried' = TRUE
       /\ activeAgentId' = AGENT_ID
       /\ requests' = requests \cup
            {[n |-> submitted + 1,
              q |-> Str(Trim(Coalesce(queryText, query).s)),
              queryText |-> queryText]}
       /\ submitted' = submitted + 1
       /\ last' = [op |-> "other"]

(* line 694: typing in the input, which is disabled while loading (698) *)
TypeQuery(text) ==
  /\ ~loading
  /\ query' = text
  /\ last' = [op |-> "other"]
  /\ UNCHANGED <<loading, error, results, history, hasQueried, activeAgentId,
                 requests, submitted, clock>>
  /\ UNCHANGED parserVars

(* line 695: Enter in the input *)
PressEnter ==
  /\ ~loading
  /\ submitted < MaxRequests
  /\ handleSubmit(Undef)
  /\ UNCHANGED <<query, history, clock>>
  /\ UNCHANGED parserVars

(* lines 710-712: the search button *)
ClickSearch ==
  /\ ~loading
  /\ Trim(query.s) # <<>>
  /\ submitted < MaxRequests
  /\ handleSubmit(Undef)
  /\ UNCHANGED <<query, history, clock>>
  /\ UNCHANGED parserVars

(* lines 737-742 and 877-883: the Fetch All buttons *)
ClickFetchAll ==
  /\ ~loading
  /\ submitted < MaxRequests
  /\ query' = ShowAll
  /\ handleSubmit(FETCH_ALL_QUERY)
  /\ UNCHANGED <<history, clock>>
  /\ UNCHANGED parserVars

(* lines 773-780: a suggestion chip *)
ClickSuggestion(s) ==
  /\ ~loading
  /\ submitted < MaxRequests
  /\ query' = s
  /\ handleSubmit(s)
  /\ UNCHANGED <<history, clock>>
  /\ UNCHANGED parserVars

(* lines 574-577, called by the history items of lines 646-650, which have
   no disabled attribute *)
rerunQuery(q) ==
  /\ submitted < MaxRequests
  /\ query' = q
  /\ handleSubmit(q)
  /\ UNCHANGED <<history, clock>>
  /\ UNCHANGED parserVars

(* lines 823-840: the Retry button of the error banner *)
ClickRetry ==
  /\ Truthy(error)
  /\ submitted < MaxRequests
  /\ handleSubmit(Undef)
  /\ UNCHANGED <<query, history, clock>>
  /\ UNCHANGED parserVars

(* lines 564-571, called by the button of lines 628-630 *)
clearHistory ==
  /\ Len(history) > 0
  /\ history' = <<>>
  /\ last' = [op |-> "cleared"]
  /\ UNCHANGED <<query, loading, error, results, hasQueried, activeAgentId,
                 requests, submitted, clock>>
  /\ UNCHANGED parserVars

(* lines 468-531: the continuation of handleSubmit for request req, settled
   with result (an envelope, or the value callAIAgent rejected with) *)
Settle(req, result, out) ==
  /\ requests' = requests \ {req}
  /\ loading' = FALSE
  /\ activeAgentId' = Null
  /\ IF out.set = "results"
     THEN /\ results' = out.results
          /\ history' = <<HistoryItem(req, out.resultCount)>> \o Kept(history)
          /\ clock' = clock + 1
          /\ UNCHANGED error
     ELSE /\ error' = out.error
          /\ UNCHANGED <<results, history, clock>>
  /\ last' = [op |-> "settled", result |-> result, set |-> out.set,
               prev |-> history, was |-> results]
  /\ UNCHANGED <<query, hasQueried, submitted>>
  /\ UNCHANGED parserVars

Reject(req, err) == Settle(req, err, Caught(err))

(* the texts typed into the input *)
Typed == {Str(<<SP>>), Str(<<SP, "API", SP, "keys", NBSP>>)}

(* the envelopes callAIAgent returns *)
AgentEnvelope(success, response, err) ==
  Obj(Opt("success", success) \o Opt("response", response) \o Opt("error", err))

EmptyVars(extra) == Obj(<<KV("variables", Arr(<<>>))>> \o extra)

PageEnvelopes ==
  { AgentEnvelope(Bool(FALSE), Undef, W("timeout")),
    AgentEnvelope(Bool(FALSE), Obj(<<KV("message", W("agent down"))>>), Undef),
    AgentEnvelope(Bool(FALSE), Undef, Undef),
    AgentEnvelope(Bool(TRUE), Response(T1, <<>>), Undef),
    AgentEnvelope(Bool(TRUE),
      Response(EmptyVars(<<KV("query_interpretation", W("all ports"))>>), <<>>), Undef),
    AgentEnvelope(Bool(TRUE),
      Response(EmptyVars(<<KV("message", W("none found"))>>), <<>>), Undef),
    AgentEnvelope(Bool(TRUE), Response(Obj(<<>>), <<>>), Undef),
    AgentEnvelope(Bool(TRUE), Response(EmptyVars(<<KV("query_interpretation", Int_(0))>>), <<>>),
      Undef),
    AgentEnvelope(Bool(TRUE),
      Response(Target(<<WellFormedElem>>, Undef, <<KV("query_interpretation", Int_(42))>>, Undef),
               <<>>), Undef),
    AgentEnvelope(Bool(TRUE),
      Response(PlainTarget(<<Obj(<<KV("name", Obj(<<KV("toString", Int_(1))>>))>>)>>), <<>>),
      Undef),
    AgentEnvelope(Bool(TRUE), Response(W("plain"), <<KV("message", W("no data"))>>),
      W("upstream")),
    AgentEnvelope(Bool(TRUE), Response(W("plain"), <<>>), W("upstream")),
    AgentEnvelope(Bool(TRUE), Response(W("plain"), <<KV("message", Int_(7))>>), Undef) }

(* lines 486-524 for each of these envelopes: what Outcome makes of what
   parseAgentResponse returns for it, worked out once *)
Completions ==
  [result \in PageEnvelopes |-> Outcome(result, parseAgentResponse(result))]

Complete(req, result) == Settle(req, result, Completions[result])

(* the values callAIAgent rejects with: an Error, and a value that is none *)
Rejections == {[t |-> "Error", message |-> W("Failed to fetch")], W("boom")}

(* lines 414-424: the history loaded from localStorage on mount, newest
   first, as earlier runs of the page saved it *)
StoredItem(i) ==
  [id |-> 0 - i,
   query |-> IF i = 1 THEN ShowAll ELSE W("ports"),
   timestamp |-> 0 - i,
   resultCount |-> Int_(i % 3)]
Stored(n) == [i \in 1..n |-> StoredItem(i)]
StoredHistories == {Stored(n) : n \in {0, 49}}

PageInit ==
  /\ fn = "Page"
  /\ arg = Undef
  /\ ret = Pending
  /\ again = Pending
  /\ pc = "mounted"
  /\ frame = NoFrame
  /\ iterations = 0
  /\ PageStart
  /\ history \in StoredHistories

PageNext ==
  \/ \E text \in Typed : TypeQuery(text)
  \/ PressEnter
  \/ ClickSearch
  \/ ClickFetchAll
  \/ \E s \in SUGGESTIONS : ClickSuggestion(s)
  \/ \E q \in {history[i].query : i \in 1..Len(history)} : rerunQuery(q)
  \/ ClickRetry
  \/ clearHistory
  \/ \E req \in requests, result \in PageEnvelopes : Complete(req, result)
  \/ \E req \in requests, err \in Rejections : Reject(req, err)

PageSpec == PageInit /\ [][PageNext]_vars

(* request number n is outstanding *)
InFlight(n) == \E req \in requests : req.n = n

(* line 467: the awaited call of request n settles, and the continuation of
   handleSubmit runs *)
Settles(n) ==
  \E req \in requests :
    /\ req.n = n
    /\ \/ \E result \in PageEnvelopes : Complete(req, result)
       \/ \E err \in Rejections : Reject(req, err)

(* the page with every call of callAIAgent settling in the end: the promise
   resolves or rejects, and the event loop then runs the continuation *)
PageLive == PageSpec /\ \A n \in 1..MaxRequests : WF_vars(Settles(n))

---------------------------------------------------------------------------
(* Properties of parseAgentResponse and tryParseJsonString *)

Returned == pc = "returned" /\ fn = "parseAgentResponse"
Produced == Returned /\ ret.t = "res"

ArgResponse == Get(arg, "response")
ArgResult == Get(ArgResponse, "result")
Accepted == Truthy(Get(arg, "success")) /\ Truthy(ArgResponse)

(* the object the strategies settle on for the envelope called with, and
   its `variables` list *)
Source == LocateData(arg)
SourceList == IF HasVariables(Source) THEN Get(Source, "variables").a ELSE <<>>

NonNegativeInteger(v) == IsNumber(v) /\ v.d = 1 /\ v.n >= 0

EmptyResult ==
  [t |-> "res", query_interpretation |-> Str(<<>>), variables |-> <<>>,
   total_found |-> Int_(0), message |-> Str(<<>>)]

ScenarioD == Envelope(Bool(TRUE), Response(Obj(<<>>), <<>>), Undef)

(* C1, as claimed: a successful envelope with a response in which no strategy
   locates an object with a list-valued `variables` field yields null. *)
C1_AbsentWhenNotLocated ==
  (Returned /\ Accepted /\ NotTarget(Source)) => ret = Null

(* C1, amended: for such an envelope the outcome is null exactly when the
   coerced response.result is not an object or array; when it is one, the
   outcome is a result with an empty variables list, and for
   {success: true, response: {result: {}}} it is the all-defaults result. *)
C1_AbsentOnlyForNonObject ==
  (Returned /\ Accepted /\ NotTarget(Source)) =>
    /\ IF IsObjectLike(tryParseJsonString(ArgResult))
       THEN ret.t = "res" /\ ret.variables = <<>>
       ELSE ret = Null
    /\ arg = ScenarioD => ret = EmptyResult

C1_Witness == Returned /\ arg = ScenarioD /\ ret = EmptyResult

(* C2: an envelope whose success flag is false, or whose response is missing,
   yields null whatever result, raw_response and the other fields hold. *)
C2_AbsentOnFailure ==
  (Returned /\ (~Truthy(Get(arg, "success")) \/ ~Truthy(ArgResponse))) => ret = Null

C2_Witness ==
  /\ Returned
  /\ Get(arg, "success") = Bool(FALSE)
  /\ HasVariables(ArgResult)
  /\ HasVariables(tryParseJsonString(Get(arg, "raw_response")))
  /\ ret = Null

(* C3: every non-null result is well typed: query_interpretation and message
   are strings, variables is a list and total_found is a number. *)
C3_ResultWellTyped ==
  Produced =>
    /\ IsString(ret.query_interpretation)
    /\ IsString(ret.message)
    /\ IsNumber(ret.total_found)
    /\ DOMAIN ret.variables = 1..Len(ret.variables)

(* C4, as claimed: total_found of every non-null result is a non-negative
   integer. *)
C4_TotalNonNegativeInteger == Produced => NonNegativeInteger(ret.total_found)

(* C4, amended: total_found of every non-null result is a number; it is a
   non-negative integer unless the source object's total_found is itself a
   negative or fractional number, which is returned unchanged. *)
C4_TotalIsSourceNumberOrCount ==
  Produced =>
    /\ IsNumber(ret.total_found)
    /\ \/ NonNegativeInteger(ret.total_found)
       \/ /\ IsNumber(Get(Source, "total_found"))
          /\ ~NonNegativeInteger(Get(Source, "total_found"))
          /\ ret.total_found = Get(Source, "total_found")

C4_Witness ==
  /\ Produced
  /\ Get(Source, "total_found") = Num(3, 2)
  /\ ret.total_found = Num(3, 2)

(* C5: when the source object has no total_found of numeric type, the
   result's total_found is the length of the result's variables list. *)
C5_TotalDefaultsToLength ==
  (Produced /\ ~IsNumber(Get(Source, "total_found"))) =>
    ret.total_found = Int_(Len(ret.variables))

C5_Witness ==
  /\ Produced
  /\ Get(Source, "total_found") = W("2")
  /\ Len(ret.variables) = 1
  /\ ret.total_found = Int_(1)

(* a result record as the JSON object {name, value, confidence} *)
RecordAsJson(r) ==
  Obj(<<KV("name", r.name), KV("value", r.value), KV("confidence", r.confidence)>>)

WellFormedRecord(e) ==
  /\ e.t = "obj"
  /\ [i \in 1..Len(e.o) |-> e.o[i].k] = << <<"name">>, <<"value">>, <<"confidence">> >>
  /\ IsString(Get(e, "name"))
  /\ IsString(Get(e, "value"))
  /\ Get(e, "confidence") \in Confidences

IdentityCase == Returned /\ Accepted /\ HasVariables(ArgResult)

(* C6, as claimed: when response.result is an object that already has a
   list-valued `variables` field, the result's variables list is that list
   unchanged in order and content. *)
C6_ListUnchanged ==
  IdentityCase =>
    /\ ret.t = "res"
    /\ [i \in 1..Len(ret.variables) |-> RecordAsJson(ret.variables[i])]
         = Get(ArgResult, "variables").a

(* C6, amended: in that case the result's variables list has the length and
   order of that list, its i-th record keeps the i-th element's name, value
   and confidence wherever these are a string, a string and one of
   high/medium/low, and an element that is exactly such a record is
   unchanged; the one case with no result is the exception of C12, thrown
   when String() is applied to a name or value it cannot convert. *)
C6_ListKeptUpToCoercion ==
  IdentityCase =>
    IF VariablesThrow(ArgResult) THEN ret = Thrown
    ELSE
      /\ ret.t = "res"
      /\ Len(ret.variables) = Len(Get(ArgResult, "variables").a)
      /\ \A i \in 1..Len(ret.variables) :
           LET e == Get(ArgResult, "variables").a[i]
               r == ret.variables[i]
           IN /\ IsString(Get(e, "name")) => r.name = Get(e, "name")
              /\ IsString(Get(e, "value")) => r.value = Get(e, "value")
              /\ Get(e, "confidence") \in Confidences => r.confidence = Get(e, "confidence")
              /\ WellFormedRecord(e) => RecordAsJson(r) = e

C6_Witness ==
  /\ IdentityCase
  /\ ret.t = "res"
  /\ Len(ret.variables) = 2
  /\ WellFormedRecord(Get(ArgResult, "variables").a[1])
  /\ ~WellFormedRecord(Get(ArgResult, "variables").a[2])
  /\ RecordAsJson(ret.variables[1]) = Get(ArgResult, "variables").a[1]

(* obj with obj[k] set to v *)
WithKey(obj, k, v) == Obj(PutKey(obj.o, <<k>>, v))

(* response.result.text is JSON text of a target shape that response.result
   does not have itself *)
TextCase ==
  /\ Returned
  /\ Accepted
  /\ ArgResult.t = "obj"
  /\ ~HasVariables(ArgResult)
  /\ IsString(Get(ArgResult, "text"))
  /\ JSONParse(Get(ArgResult, "text").s).ok
  /\ HasVariables(JSONParse(Get(ArgResult, "text").s).v)

(* the envelope with the parsed text placed at response.result *)
PreParsed(e) ==
  WithKey(e, "response",
    WithKey(Get(e, "response"), "result",
      JSONParse(Get(Get(Get(e, "response"), "result"), "text").s).v))

(* C7: when the target shape is reached by parsing the JSON text s held at
   response.result.text, the outcome is not null and is that of the envelope
   with the parsed value of s placed at response.result. *)
C7_ParseThenExtract ==
  TextCase => ret # Null /\ ret = parseAgentResponse(PreParsed(arg))

C7_Witness ==
  /\ TextCase
  /\ Get(arg, "raw_response") = Undef
  /\ ~HasVariables(ArgResponse)
  /\ ret.t = "res"
  /\ Len(ret.variables) = 2

(* C8: tryParseJsonString is idempotent: applied to its own result it
   returns that result. *)
C8_CoerceIdempotent ==
  (pc = "twice" /\ fn = "tryParseJsonString") => again = ret

C8_Witness ==
  /\ pc = "twice"
  /\ fn = "tryParseJsonString"
  /\ IsString(arg)
  /\ StartsWith(arg.s, SP)
  /\ ret.t = "arr"
  /\ Len(ret.a) = 1
  /\ IsString(ret.a[1])
  /\ again = ret

(* C9: every record of a result is well typed: name and value are strings,
   value is "not set" when the source element has no value, and confidence
   is the source's when that is high, medium or low and is low otherwise. *)
C9_RecordsWellTyped ==
  Produced =>
    /\ Len(ret.variables) = Len(SourceList)
    /\ \A i \in 1..Len(ret.variables) :
         LET e == SourceList[i]
             r == ret.variables[i]
         IN /\ IsString(r.name)
            /\ IsString(r.value)
            /\ Nullish(Get(e, "value")) => r.value = NotSet
            /\ r.confidence = IF Get(e, "confidence") \in Confidences
                              THEN Get(e, "confidence") ELSE W("low")

C9_Witness ==
  /\ Produced
  /\ \E i \in 1..Len(ret.variables) :
       /\ i <= Len(SourceList)
       /\ Get(SourceList[i], "name") = Int_(42)
       /\ Get(SourceList[i], "value") = Null
       /\ Get(SourceList[i], "confidence") = W("HIGH")
       /\ ret.variables[i] = [name |-> W("42"), value |-> NotSet, confidence |-> W("low")]

(* the record the defaulting rules give for one source element *)
Repaired(e) ==
  [name |-> IF IsString(Get(e, "name")) THEN Get(e, "name")
            ELSE IF Nullish(Get(e, "name")) THEN Str(<<>>)
            ELSE Str(ToStringTokens(Get(e, "name"))),
   value |-> IF IsString(Get(e, "value")) THEN Get(e, "value")
             ELSE IF Nullish(Get(e, "value")) THEN NotSet
             ELSE Str(ToStringTokens(Get(e, "value"))),
   confidence |-> IF Get(e, "confidence") \in Confidences
                  THEN Get(e, "confidence") ELSE W("low")]

(* C10: the result's variables list has the length of the source list and
   its i-th record is the i-th source element repaired by the defaults: no
   element is dropped, reordered or merged with another. *)
C10_OneRecordPerElement ==
  Produced =>
    /\ Len(ret.variables) = Len(SourceList)
    /\ \A i \in 1..Len(ret.variables) : ret.variables[i] = Repaired(SourceList[i])

C10_Witness ==
  /\ Produced
  /\ SourceList = <<Null, WellFormedElem>>
  /\ ret.variables[1] = [name |-> Str(<<>>), value |-> NotSet, confidence |-> W("low")]
  /\ RecordAsJson(ret.variables[2]) = WellFormedElem

(* the envelope without its raw_response field *)
WithoutRaw(e) == Obj(SelectSeq(e.o, LAMBDA m : m.k # <<"raw_response">>))

Stepwise == fn = "parseAgentResponse/steps"
LoopRan == Stepwise /\ pc = "returned" /\ iterations > 0

(* a step of the stepwise call is enabled: BeginParse at "call", RawIterate
   or RawExit at "loop", FinishParse at "scan" *)
CanStep ==
  \/ pc \in {"call", "scan"}
  \/ pc = "loop" /\ (LoopContinues(frame.depth) \/ ~LoopContinues(frame.depth))

(* C11, as claimed: a call never hangs, the loop over raw_response runs at
   most 3 iterations, and a call that ran the loop returns null or the
   result of the target-shaped object the loop found. *)
C11_AbsentOrMatch ==
  /\ Stepwise => iterations <= 3 /\ (pc = "returned" \/ CanStep)
  /\ LoopRan =>
       \/ ret = Null
       \/ HasVariables(frame.data) /\ ret = BuildResult(frame.data)

(* C11, amended: a call never hangs: until it has returned a step is
   enabled, and the loop over raw_response runs at most 3 iterations, with
   depth never above 3; the stepwise call returns what parseAgentResponse
   returns; and a call that ran the loop returns either what it returns for
   the envelope without raw_response (null, or the result strategies 1, 2
   and 4 give) or the result of the target-shaped object the loop found
   within those iterations. *)
C11_BoundedRawLoop ==
  /\ Stepwise =>
       /\ iterations <= 3
       /\ frame.depth <= 3
       /\ pc = "returned" \/ CanStep
       /\ pc = "returned" => ret = parseAgentResponse(arg)
  /\ LoopRan =>
       \/ ret = parseAgentResponse(WithoutRaw(arg))
       \/ HasVariables(frame.data) /\ ret = BuildResult(frame.data)

(* raw_response nested one level deeper than the loop reaches *)
C11_Witness ==
  /\ LoopRan
  /\ Get(arg, "raw_response") = Wrapped(T1, 4, TRUE)
  /\ iterations = 3
  /\ frame.depth = 3
  /\ ArgResult = Null
  /\ ret = Null

(* C12: a call of parseAgentResponse never throws: its outcome is null or a
   result. *)
C12_NeverThrows ==
  (pc = "returned" /\ fn \in {"parseAgentResponse", "parseAgentResponse/steps"}) =>
    ret = Null \/ ret.t = "res"

(* v is an object with a list-valued `variables` field *)
IsTarget(v) == IsObjectLike(v) /\ HasVariables(v)

(* what each later strategy finds at its own location, run on an empty
   candidate: response itself or response.result, raw_response, and the
   string values of response.result *)
Yield2(e) == ResponseCheck(Get(e, "response"), Undef)
Yield3(e) ==
  IF Truthy(Get(e, "raw_response")) THEN RawLoop(Get(e, "raw_response"), 0, Undef)
  ELSE Undef
Yield4(e) ==
  IF IsObjectLike(Get(Get(e, "response"), "result"))
  THEN ScanValues(ObjectValues(Get(Get(e, "response"), "result")), Undef)
  ELSE Undef

(* the first target in the order of the strategies, and the candidate of
   strategy 1 when there is none *)
FirstSuccess(e) ==
  IF IsTarget(PrimaryResult(e)) THEN PrimaryResult(e)
  ELSE IF IsTarget(Yield2(e)) THEN Yield2(e)
  ELSE IF IsTarget(Yield3(e)) THEN Yield3(e)
  ELSE IF IsTarget(Yield4(e)) THEN Yield4(e)
  ELSE PrimaryResult(e)

(* C18: the strategies are tried in the order primary result, response
   level, raw_response, deep scan: the object the result is built from is
   the target of the first strategy that finds one at its location, and the
   candidate strategy 1 left when none does. *)
C18_FirstStrategyWins ==
  (Returned /\ Accepted) =>
    /\ Source = FirstSuccess(arg)
    /\ ret = BuildResult(FirstSuccess(arg))

(* strategies 1 and 2 fail; raw_response and an embedded string both hold a
   target, and the one of raw_response is used *)
C18_Witness ==
  /\ Returned
  /\ Accepted
  /\ ~IsTarget(PrimaryResult(arg))
  /\ ~IsTarget(Yield2(arg))
  /\ Yield3(arg) = T1
  /\ Yield4(arg) = T2
  /\ Source = T1
  /\ ret.t = "res"
  /\ Len(ret.variables) = 1

Extracted == pc = "returned" /\ fn = "extractAgentData"

(* the positions, in the order text, response, result, data, content,
   output, of the keys of obj whose coerced value is a target *)
KeyOrder == <<"text", "response", "result", "data", "content", "output">>
Matching(obj) ==
  {i \in 1..Len(KeyOrder) : IsTarget(tryParseJsonString(Get(obj, KeyOrder[i])))}
FirstMatching(obj) == CHOOSE i \in Matching(obj) : \A j \in Matching(obj) : i <= j

(* C19: for an object without a list-valued `variables` field,
   extractAgentData returns the coerced value of the first key, in the order
   text, response, result, data, content, output, whose coerced value is a
   target, and the object itself when there is none; a non-object and a
   target are returned unchanged. *)
C19_FirstKeyWins ==
  Extracted =>
    IF IsObjectLike(arg) /\ ~HasVariables(arg) /\ Matching(arg) # {}
    THEN ret = tryParseJsonString(Get(arg, KeyOrder[FirstMatching(arg)]))
    ELSE ret = arg

(* `output` comes first in the object and holds a target, `text` holds
   another as JSON text: the one of `text` is returned *)
C19_Witness ==
  /\ Extracted
  /\ arg.t = "obj"
  /\ Len(arg.o) = 2
  /\ arg.o[1].k = <<"output">>
  /\ Matching(arg) = {1, 6}
  /\ ret = T2

(* strategies 1 to 3 fail and response.result is an object or array *)
ScanCase ==
  /\ Returned
  /\ Accepted
  /\ ~IsTarget(RawResponse(arg, ResponseLevel(arg, PrimaryResult(arg))))
  /\ IsObjectLike(ArgResult)

(* the positions, in the order of Object.values, of the strings that hold
   `variables` and coerce to a target *)
Hits(vals) ==
  {i \in 1..Len(vals) :
     /\ IsString(vals[i])
     /\ IncludesVariables(vals[i].s)
     /\ IsTarget(tryParseJsonString(vals[i]))}
FirstHit(vals) == CHOOSE i \in Hits(vals) : \A j \in Hits(vals) : i <= j

(* C20: in that case the object the result is built from is the coerced
   value of the first string value of response.result, in the order of its
   keys, that holds `variables` and coerces to a target; strings holding
   `variables` that do not coerce to one are passed over; with no such
   string the candidate is left as it was. *)
C20_FirstEmbeddedTarget ==
  ScanCase =>
    IF Hits(ObjectValues(ArgResult)) # {}
    THEN Source = tryParseJsonString(
                    ObjectValues(ArgResult)[FirstHit(ObjectValues(ArgResult))])
    ELSE Source = RawResponse(arg, ResponseLevel(arg, PrimaryResult(arg)))

(* the first value mentions `variables` and parses to a non-target, the
   second holds the target *)
C20_Witness ==
  /\ ScanCase
  /\ Len(ObjectValues(ArgResult)) = 2
  /\ IsString(ObjectValues(ArgResult)[1])
  /\ IncludesVariables(ObjectValues(ArgResult)[1].s)
  /\ tryParseJsonString(ObjectValues(ArgResult)[1]).t = "obj"
  /\ Hits(ObjectValues(ArgResult)) = {2}
  /\ Source = T2
  /\ ret.t = "res"
  /\ Len(ret.variables) = 2

---------------------------------------------------------------------------
(* Properties of the page.  last records the step that led to the state: for
   the continuation of handleSubmit, the value the call settled with, the
   state it set (results or error), and the history and the results it
   found. *)

Settled == last.op = "settled"

Appended == Settled /\ last.set = "results"

(* C13: after every history append of handleSubmit the list holds at most 50
   items, the new item is first, the items held before follow it in their
   order, and the items dropped are those at the end of the list, dropped
   only beyond 50; clearHistory leaves the list empty. *)
C13_AppendTrimClear ==
  /\ Appended =>
       /\ Len(history) <= 50
       /\ Len(history) = (IF Len(last.prev) < 50 THEN Len(last.prev) + 1 ELSE 50)
       /\ history[1].id = clock
       /\ \A i \in 1..Len(last.prev) : last.prev[i] # history[1]
       /\ Tail(history) = SubSeq(last.prev, 1, Len(history) - 1)
  /\ last.op = "cleared" => history = <<>>

C13_Witness ==
  /\ Appended
  /\ Len(last.prev) = 50
  /\ Len(history) = 50
  /\ history[50] = last.prev[49]
  /\ last.prev[50] # history[50]

(* the value line 492 normalizes the settled envelope to; handleSubmit
   normalizes only an envelope whose success is truthy (line 486) *)
Normalized == parseAgentResponse(last.result)

IsResult(parsed) == parsed # Null /\ parsed # Thrown

NormalizedCase == Settled /\ Truthy(Get(last.result, "success")) /\ IsResult(Normalized)

EmptyOf(parsed) == Len(parsed.variables) = 0 /\ ~Truthy(parsed.message)

EmptyCase == NormalizedCase /\ EmptyOf(Normalized)

NotRecorded == last.set = "error" /\ Truthy(error) /\ history = last.prev

Recorded(parsed, resultCount) ==
  /\ last.set = "results"
  /\ results = parsed
  /\ Len(history) > 0
  /\ history[1].id = clock
  /\ history[1].resultCount = resultCount
  /\ Tail(history) = Kept(last.prev)

(* C14 as stated: a completed request whose normalized result has empty
   variables and an empty message is a no match and leaves the history
   unchanged, whatever the other fields of the result hold. *)
C14_EmptyNeverRecorded == EmptyCase => NotRecorded

(* C14: a completed request whose normalized result has empty variables, an
   empty message and an empty query_interpretation ends in the error state
   and leaves the history unchanged; with a non-empty query_interpretation
   string the result is displayed and one item is put first in the history,
   although variables and message are empty; with a query_interpretation
   that is neither a string nor an array nothing is recorded. *)
C14_EmptyRecordedByInterpretation ==
  EmptyCase =>
    IF IsString(Normalized.query_interpretation)
    THEN IF Normalized.query_interpretation.s = <<>>
         THEN NotRecorded
         ELSE Recorded(Normalized, Normalized.total_found)
    ELSE Normalized.query_interpretation.t # "arr" => NotRecorded

C14_Witness ==
  /\ EmptyCase
  /\ Normalized.query_interpretation = Str(<<>>)
  /\ Len(history) > 0
  /\ NotRecorded
  /\ error = W("No matching variables found. The agent returned an empty result. Try a more specific query.")

DataCase ==
  NormalizedCase /\ (Len(Normalized.variables) > 0 \/ Truthy(Normalized.message))

(* C15: a completed request whose normalized result has one or more
   variables or a non-empty message has that result set as the displayed
   results and exactly one item, put first, appended to the history. *)
C15_DataDisplayedAndRecorded ==
  DataCase =>
    /\ last.set = "results"
    /\ results = Normalized
    /\ Len(history) > 0
    /\ history[1].id = clock
    /\ Tail(history) = Kept(last.prev)

(* a completed request that yields absent: success is false, or the envelope
   is normalized to null *)
AbsentCase ==
  /\ Settled
  /\ last.result.t = "obj"
  /\ ~Truthy(Get(last.result, "success")) \/ Normalized = Null

EnvelopeError == Get(last.result, "error")

EnvelopeMessage == Get(Get(last.result, "response"), "message")

FailedText == W("Agent request failed. Please try again.")

EmptyText ==
  W("No matching variables found. The agent returned an empty result. Try a more specific query.")

NoResultsText == W("No results returned. Try a different query.")

(* C16 as stated: a completed request that yields absent ends in the error
   state with results null and the history unchanged, and the error is
   envelope.error if present, otherwise envelope.response.message, otherwise
   a generic message. *)
C16_ErrorBeforeMessage ==
  AbsentCase =>
    /\ last.set = "error"
    /\ results = Null
    /\ history = last.prev
    /\ error = IF ~Nullish(EnvelopeError) THEN EnvelopeError
               ELSE IF ~Nullish(EnvelopeMessage) THEN EnvelopeMessage
               ELSE error
    /\ Nullish(EnvelopeError) /\ Nullish(EnvelopeMessage) =>
         error \in {FailedText, EmptyText, NoResultsText}

(* C16: a completed request that yields absent sets the error and leaves the
   results and the history as it found them (results null when it is the
   only request made).  With success false the error is envelope.error if
   present, otherwise envelope.response.message, otherwise 'Agent request
   failed. Please try again.'; with a successful envelope it is
   envelope.response.message if present, otherwise envelope.error, otherwise
   the empty-result text, and 'No results returned. Try a different query.'
   when the value so chosen is not a string.  For {success: false, error:
   "timeout"} the error is "timeout". *)
C16_AbsentSurfacesError ==
  AbsentCase =>
    /\ last.set = "error"
    /\ results = last.was
    /\ submitted = 1 => results = Null
    /\ history = last.prev
    /\ error =
         IF ~Truthy(Get(last.result, "success"))
         THEN Coalesce(EnvelopeError, Coalesce(EnvelopeMessage, FailedText))
         ELSE IF IsString(Coalesce(EnvelopeMessage, Coalesce(EnvelopeError, EmptyText)))
         THEN Coalesce(EnvelopeMessage, Coalesce(EnvelopeError, EmptyText))
         ELSE NoResultsText
    /\ last.result = AgentEnvelope(Bool(FALSE), Undef, W("timeout")) =>
         error = W("timeout")

C16_Witness ==
  /\ AbsentCase
  /\ Truthy(Get(last.result, "success"))
  /\ EnvelopeError = W("upstream")
  /\ EnvelopeMessage = W("no data")
  /\ error = W("no data")
  /\ results = Null
  /\ Len(history) > 0
  /\ history = last.prev

(* C17: at most one agent request is outstanding in every reachable state:
   while a request is in flight no control starts a second one. *)
C17_OneOutstanding == Cardinality(requests) <= 1

(* C21: in every reachable state of the page the error and the displayed
   results are never both set: error is non-null only if results is null. *)
C21_ErrorOrResults == error # Null => results = Null

(* the request whose continuation this step runs, recording an item *)
Records(req) ==
  /\ req \in requests
  /\ req \notin requests'
  /\ last'.op = "settled"
  /\ last'.set = "results"

(* C22: the history item appended for a successful submission records the
   query text submitted: for a submission made with an explicit query text
   other than the Fetch All query (a suggestion chip or a history rerun) the
   item's query is that text, trimmed. *)
C22_RecordsSubmittedText ==
  [][\A req \in requests :
       (Records(req) /\ Truthy(req.queryText) /\ req.queryText # FETCH_ALL_QUERY)
         => history'[1].query = Str(Trim(req.queryText.s))]_vars

(* every submission that reaches the call completes *)
EventuallySettles == \A n \in 1..MaxRequests : InFlight(n) ~> ~InFlight(n)

(* a submission that reaches the call sets loading and the active agent *)
SubmitLoads ==
  [][Cardinality(requests') > Cardinality(requests) =>
       loading' = TRUE /\ activeAgentId' = AGENT_ID]_vars

(* a completion, on whichever path, leaves loading false and no active agent *)
SettlesIdle ==
  [][Cardinality(requests') < Cardinality(requests) =>
       loading' = FALSE /\ activeAgentId' = Null]_vars

(* loading stays true while a request is outstanding *)
LoadingWhileInFlight == [](requests # {} => loading = TRUE)

(* a submission whose trimmed query is empty changes nothing *)
BlankNoChange ==
  [][last'.op = "blank" =>
       UNCHANGED <<query, loading, error, results, history, hasQueried,
                   activeAgentId, requests, submitted, clock>>]_vars

(* C23: every non-empty submission eventually completes, with loading false
   and activeAgentId null, on every path; loading is true from the
   submission until that request completes; a submission whose trimmed
   query is empty changes no state. *)
C23_SubmissionCompletes ==
  /\ EventuallySettles
  /\ SubmitLoads
  /\ SettlesIdle
  /\ LoadingWhileInFlight
  /\ BlankNoChange

---------------------------------------------------------------------------
(* Stringified and pre-parsed results *)

(* response.result is a string that parses, as JSON, to an object *)
StringCase ==
  /\ Returned
  /\ IsString(ArgResult)
  /\ JSONParse(ArgResult.s).ok
  /\ JSONParse(ArgResult.s).v.t = "obj"

(* the envelope e with the parsed value of its response.result in place of
   the string *)
ResultParsed(e) ==
  WithKey(e, "response",
    WithKey(Get(e, "response"), "result",
      JSONParse(Get(Get(e, "response"), "result").s).v))

(* C24: for every string s that parses to an object, parseAgentResponse
   returns for an envelope with s at response.result what it returns for the
   envelope that has the parsed value of s there instead. *)
C24_StringifiedAlike ==
  StringCase => ret = parseAgentResponse(ResultParsed(arg))

=============================================================================
